---- MODULE Spec2Model ----
(***************************************************************************)
(* Model of the chess rules engine (src/utils/chessLogic.ts), the board    *)
(* constructor (src/constants.tsx) and the game-state reducer of the       *)
(* presentation layer (src/App.tsx).                                       *)
(*                                                                         *)
(* A board is a function board[r][c] over 0..7 x 0..7, as the source's     *)
(* array of rows.  An empty square (null in the source) is the record      *)
(* Null; an absent move (null lastMove) is the record NoMove.  Move lists  *)
(* (Position[]) are modelled as sets of positions: every consumer in the   *)
(* source only tests membership (some) or emptiness (length === 0).        *)
(***************************************************************************)
EXTENDS Integers, Sequences, FiniteSets, TLC

VARIABLES board, currentPlayer, history, status, winner, selectedSquare,
          lastMove, capturedWhite, capturedBlack, isFlipped, timers,
          promotionPending,
          query    \* the last call made to the engine from outside App

vars == <<board, currentPlayer, history, status, winner, selectedSquare,
          lastMove, capturedWhite, capturedBlack, isFlipped, timers,
          promotionPending, query>>

(***************************************************************************)
(* Data model (types.ts)                                                   *)
(***************************************************************************)
Color == {"white", "black"}

PieceType == {"pawn", "rook", "knight", "bishop", "queen", "king"}

Idx == 0..7

Position(r, c) == [row |-> r, col |-> c]

NoPos == [row |-> -1, col |-> -1]

Piece(i, t, c, h) == [id |-> i, type |-> t, color |-> c, hasMoved |-> h]

Null == [id |-> -1, type |-> "none", color |-> "none", hasMoved |-> FALSE]

Move(f, t, p, cap, cas, ep, promo, pt, n) ==
    [from |-> f, to |-> t, piece |-> p, captured |-> cap, isCastling |-> cas,
     isEnPassant |-> ep, isPromotion |-> promo, promotedTo |-> pt,
     notation |-> n]

NoMove == Move(NoPos, NoPos, Null, Null, FALSE, FALSE, FALSE, "none", "")

Opponent(color) == IF color = "white" THEN "black" ELSE "white"

Abs(x) == IF x < 0 THEN -x ELSE x

(***************************************************************************)
(* constants.tsx                                                           *)
(***************************************************************************)
BackRank == <<"rook", "knight", "bishop", "queen", "king", "bishop", "knight", "rook">>

INITIAL_BOARD_LAYOUT ==
    [r \in Idx |-> [c \in Idx |->
        IF r = 0 \/ r = 7 THEN BackRank[c + 1]
        ELSE IF r = 1 \/ r = 6 THEN "pawn"
        ELSE "none"]]

createInitialBoard ==
    [r \in Idx |-> [c \in Idx |->
        LET type == INITIAL_BOARD_LAYOUT[r][c] IN
        IF type = "none" THEN Null
        ELSE Piece(r * 8 + c, type, IF r < 2 THEN "black" ELSE "white", FALSE)]]

(***************************************************************************)
(* chessLogic.ts                                                           *)
(***************************************************************************)
isWithinBoard(row, col) == row >= 0 /\ row < 8 /\ col >= 0 /\ col < 8

\* first square in row-major scan order holding the king of that colour
findKing(b, color) ==
    LET found == {k \in 0..63 : b[k \div 8][k % 8].type = "king"
                                /\ b[k \div 8][k % 8].color = color}
    IN IF found = {} THEN NoPos
       ELSE LET k == CHOOSE x \in found : \A y \in found : x <= y
            IN Position(k \div 8, k % 8)

addIfEmpty(b, r, c) == isWithinBoard(r, c) /\ b[r][c] = Null

addIfEnemy(b, piece, r, c) ==
    isWithinBoard(r, c) /\ b[r][c] # Null /\ b[r][c].color # piece.color

kMoves == {<<-2, -1>>, <<-2, 1>>, <<-1, -2>>, <<-1, 2>>,
           <<1, -2>>, <<1, 2>>, <<2, -1>>, <<2, 1>>}

directions(type) ==
    IF type = "bishop" THEN {<<-1, -1>>, <<-1, 1>>, <<1, -1>>, <<1, 1>>}
    ELSE IF type = "rook" THEN {<<-1, 0>>, <<1, 0>>, <<0, -1>>, <<0, 1>>}
    ELSE {<<-1, -1>>, <<-1, 1>>, <<1, -1>>, <<1, 1>>,
          <<-1, 0>>, <<1, 0>>, <<0, -1>>, <<0, 1>>}

\* faulty variant of Ray: a ray stops in front of an enemy piece, too
RECURSIVE Ray_NoCapture(_, _, _, _, _, _)
Ray_NoCapture(b, piece, nr, nc, dr, dc) ==
    IF ~isWithinBoard(nr, nc) THEN {}
    ELSE IF b[nr][nc] = Null
         THEN {Position(nr, nc)} \cup Ray_NoCapture(b, piece, nr + dr, nc + dc, dr, dc)
         ELSE {}

\* the while loop of one sliding direction, from square (nr, nc) onwards
RECURSIVE Ray(_, _, _, _, _, _)
Ray(b, piece, nr, nc, dr, dc) ==
    IF ~isWithinBoard(nr, nc) THEN {}
    ELSE IF b[nr][nc] = Null
         THEN {Position(nr, nc)} \cup Ray(b, piece, nr + dr, nc + dc, dr, dc)
         ELSE IF b[nr][nc].color # piece.color THEN {Position(nr, nc)} ELSE {}

PawnMoves(b, pos, piece, lm) ==
    LET row == pos.row
        col == pos.col
        dir == IF piece.color = "white" THEN -1 ELSE 1
    IN  (IF addIfEmpty(b, row + dir, col)
         THEN {Position(row + dir, col)} \cup
              (IF ~piece.hasMoved /\ addIfEmpty(b, row + 2 * dir, col)
               THEN {Position(row + 2 * dir, col)} ELSE {})
         ELSE {})
        \cup {Position(row + dir, c) : c \in {x \in {col - 1, col + 1} :
                                              addIfEnemy(b, piece, row + dir, x)}}
        \cup (IF lm # NoMove /\ lm.piece.type = "pawn"
                 /\ Abs(lm.from.row - lm.to.row) = 2
                 /\ lm.to.row = row /\ Abs(lm.to.col - col) = 1
              THEN {Position(row + dir, lm.to.col)} ELSE {})

KnightMoves(b, pos, piece) ==
    {Position(pos.row + d[1], pos.col + d[2]) :
        d \in {k \in kMoves :
                 isWithinBoard(pos.row + k[1], pos.col + k[2])
                 /\ (b[pos.row + k[1]][pos.col + k[2]] = Null
                     \/ b[pos.row + k[1]][pos.col + k[2]].color # piece.color)}}

SlidingMoves(b, pos, piece) ==
    UNION {Ray(b, piece, pos.row + d[1], pos.col + d[2], d[1], d[2]) :
              d \in directions(piece.type)}

KingMoves(b, pos, piece, ignoreCheck) ==
    LET row == pos.row
        col == pos.col
        rookK == b[row][7]
        rookQ == b[row][0]
    IN  {Position(row + d[1], col + d[2]) :
            d \in {k \in (-1..1) \X (-1..1) :
                     ~(k[1] = 0 /\ k[2] = 0)
                     /\ isWithinBoard(row + k[1], col + k[2])
                     /\ (b[row + k[1]][col + k[2]] = Null
                         \/ b[row + k[1]][col + k[2]].color # piece.color)}}
        \cup (IF ~piece.hasMoved /\ ~ignoreCheck
                 /\ rookK # Null /\ rookK.type = "rook" /\ ~rookK.hasMoved
                 /\ b[row][5] = Null /\ b[row][6] = Null
              THEN {Position(row, 6)} ELSE {})
        \cup (IF ~piece.hasMoved /\ ~ignoreCheck
                 /\ rookQ # Null /\ rookQ.type = "rook" /\ ~rookQ.hasMoved
                 /\ b[row][1] = Null /\ b[row][2] = Null /\ b[row][3] = Null
              THEN {Position(row, 2)} ELSE {})

getPieceMoves(b, pos, lm, ignoreCheck) ==
    LET piece == b[pos.row][pos.col] IN
    IF piece = Null THEN {}
    ELSE IF piece.type = "pawn" THEN PawnMoves(b, pos, piece, lm)
    ELSE IF piece.type = "knight" THEN KnightMoves(b, pos, piece)
    ELSE IF piece.type = "king" THEN KingMoves(b, pos, piece, ignoreCheck)
    ELSE SlidingMoves(b, pos, piece)

isSquareAttacked(b, pos, attackerColor) ==
    \E r \in Idx, c \in Idx :
        /\ b[r][c] # Null
        /\ b[r][c].color = attackerColor
        /\ pos \in getPieceMoves(b, Position(r, c), NoMove, TRUE)

isKingInCheck(b, color) ==
    LET kingPos == findKing(b, color) IN
    IF kingPos.row = -1 THEN FALSE
    ELSE isSquareAttacked(b, kingPos, Opponent(color))

\* faulty variant of getLegalMoves: no simulation, every raw move is legal
getLegalMoves_Unfiltered(b, pos, lm) ==
    IF b[pos.row][pos.col] = Null THEN {}
    ELSE getPieceMoves(b, pos, lm, FALSE)

\* faulty variant of getLegalMoves: the king may castle while it is in check
getLegalMoves_CastleOutOfCheck(b, pos, lm) ==
    LET piece == b[pos.row][pos.col] IN
    IF piece = Null THEN {}
    ELSE
    {m \in getPieceMoves(b, pos, lm, FALSE) :
        LET target == b[m.row][m.col]
            moved == [b EXCEPT ![m.row][m.col] = [piece EXCEPT !.hasMoved = TRUE],
                               ![pos.row][pos.col] = Null]
            dir == IF piece.color = "white" THEN 1 ELSE -1
            simulatedBoard ==
                IF piece.type = "pawn" /\ m.col # pos.col /\ target = Null
                THEN [moved EXCEPT ![m.row + dir][m.col] = Null]
                ELSE moved
            stepCol == IF m.col > pos.col THEN pos.col + 1 ELSE pos.col - 1
            stepBoard == [b EXCEPT ![pos.row][stepCol] = piece,
                                   ![pos.row][pos.col] = Null]
        IN  /\ ~isKingInCheck(simulatedBoard, piece.color)
            /\ (piece.type = "king" /\ Abs(m.col - pos.col) = 2)
                 => ~isKingInCheck(stepBoard, piece.color)}

getLegalMoves(b, pos, lm) ==
    LET piece == b[pos.row][pos.col] IN
    IF piece = Null THEN {}
    ELSE
    {m \in getPieceMoves(b, pos, lm, FALSE) :
        LET target == b[m.row][m.col]
            moved == [b EXCEPT ![m.row][m.col] = [piece EXCEPT !.hasMoved = TRUE],
                               ![pos.row][pos.col] = Null]
            dir == IF piece.color = "white" THEN 1 ELSE -1
            simulatedBoard ==
                IF piece.type = "pawn" /\ m.col # pos.col /\ target = Null
                THEN [moved EXCEPT ![m.row + dir][m.col] = Null]
                ELSE moved
            stepCol == IF m.col > pos.col THEN pos.col + 1 ELSE pos.col - 1
            stepBoard == [b EXCEPT ![pos.row][stepCol] = piece,
                                   ![pos.row][pos.col] = Null]
        IN  /\ ~isKingInCheck(simulatedBoard, piece.color)
            /\ (piece.type = "king" /\ Abs(m.col - pos.col) = 2)
                 => /\ ~isKingInCheck(b, piece.color)
                    /\ ~isKingInCheck(stepBoard, piece.color)}

\* the list's entries as (from, to) pairs; piece is b[from] and notation is ''
getAllLegalMoves(b, color, lm) ==
    UNION {{[from |-> Position(k \div 8, k % 8), to |-> t] :
                t \in getLegalMoves(b, Position(k \div 8, k % 8), lm)} :
           k \in {x \in 0..63 : b[x \div 8][x % 8] # Null
                                 /\ b[x \div 8][x % 8].color = color}}

cols == <<"a", "b", "c", "d", "e", "f", "g", "h">>

rows == <<"8", "7", "6", "5", "4", "3", "2", "1">>

\* faulty variant of pieceLetter: a pawn gets a letter like the other pieces
pieceLetter_PawnP(type) ==
    CASE type = "pawn" -> "P"
      [] type = "knight" -> "N"
      [] type = "bishop" -> "B"
      [] type = "rook" -> "R"
      [] type = "queen" -> "Q"
      [] type = "king" -> "K"

pieceLetter(type) ==
    CASE type = "pawn" -> ""
      [] type = "knight" -> "N"
      [] type = "bishop" -> "B"
      [] type = "rook" -> "R"
      [] type = "queen" -> "Q"
      [] type = "king" -> "K"

getAlgebraicNotation(from, to, piece, captured, check, mate) ==
    IF piece.type = "king" /\ Abs(from.col - to.col) = 2
    THEN (IF to.col > from.col THEN "O-O" ELSE "O-O-O")
    ELSE pieceLetter(piece.type)
         \o (IF captured
             THEN (IF piece.type = "pawn" THEN cols[from.col + 1] ELSE "") \o "x"
             ELSE "")
         \o cols[to.col + 1] \o rows[to.row + 1]
         \o (IF mate THEN "#" ELSE IF check THEN "+" ELSE "")

(***************************************************************************)
(* chessLogic.ts over a store.  A Board of the source is an array of eight *)
(* row arrays.  A store is the sequence of the row arrays that are in      *)
(* use, and a board is the tuple of the addresses of its eight rows.  The  *)
(* source never writes a field of a piece (a changed piece is a new        *)
(* object, {...piece}), so a cell holds the piece itself.                  *)
(***************************************************************************)
\* the store that holds nothing but the rows of board b, and b's address tuple
Rows(b) == [a \in 1..8 |-> b[a - 1]]

BoardRef == [r \in Idx |-> r + 1]

\* the board that the address tuple ref denotes in store
Deref(store, ref) == [r \in Idx |-> store[ref[r]]]

\* simulatedBoard[r][c] = v
Write(store, ref, r, c, v) == [store EXCEPT ![ref[r]][c] = v]

\* faulty variant of mapCopy: the copy shares the rows of the board, as
\* [...board] would
mapCopy_SharedRows(store, ref) == [store |-> store, ref |-> ref]

\* board.map(r => [...r]): eight new rows holding the cells of the old ones
mapCopy(store, ref) ==
    [store |-> store \o [i \in 1..8 |-> store[ref[i - 1]]],
     ref |-> [r \in Idx |-> Len(store) + r + 1]]

\* the callback of rawMoves.filter for the raw move m of piece on pos
filterCallback(store, ref, piece, pos, m) ==
    LET sim == mapCopy(store, ref)
        target == sim.store[sim.ref[m.row]][m.col]
        moved == Write(Write(sim.store, sim.ref, m.row, m.col,
                             [piece EXCEPT !.hasMoved = TRUE]),
                       sim.ref, pos.row, pos.col, Null)
        dir == IF piece.color = "white" THEN 1 ELSE -1
        s1 == IF piece.type = "pawn" /\ m.col # pos.col /\ target = Null
              THEN Write(moved, sim.ref, m.row + dir, m.col, Null)
              ELSE moved
        stepCol == IF m.col > pos.col THEN pos.col + 1 ELSE pos.col - 1
        step == mapCopy(s1, ref)
        s2 == Write(Write(step.store, step.ref, pos.row, stepCol, piece),
                    step.ref, pos.row, pos.col, Null)
    IN  IF isKingInCheck(Deref(s1, sim.ref), piece.color)
        THEN [store |-> s1, keep |-> FALSE]
        ELSE IF piece.type = "king" /\ Abs(m.col - pos.col) = 2
        THEN IF isKingInCheck(Deref(s1, ref), piece.color)
             THEN [store |-> s1, keep |-> FALSE]
             ELSE [store |-> s2,
                   keep |-> ~isKingInCheck(Deref(s2, step.ref), piece.color)]
        ELSE [store |-> s1, keep |-> TRUE]

\* rawMoves.filter: the callback runs on each raw move in turn; the rows it
\* allocated are unreachable once it has returned and leave the store
RECURSIVE filterInStore(_, _, _, _, _, _)
filterInStore(store, ref, piece, pos, rawMoves, kept) ==
    IF rawMoves = {} THEN [store |-> store, moves |-> kept]
    ELSE LET m == CHOOSE x \in rawMoves : TRUE
             out == filterCallback(store, ref, piece, pos, m)
         IN  filterInStore(SubSeq(out.store, 1, Len(store)), ref, piece, pos,
                           rawMoves \ {m},
                           IF out.keep THEN kept \cup {m} ELSE kept)

\* getLegalMoves on the board at ref: the store it leaves and the moves it returns
getLegalMovesInStore(store, ref, pos, lm) ==
    LET piece == store[ref[pos.row]][pos.col] IN
    IF piece = Null THEN [store |-> store, moves |-> {}]
    ELSE filterInStore(store, ref, piece, pos,
                       getPieceMoves(Deref(store, ref), pos, lm, FALSE), {})

\* getAllLegalMoves on the board at ref, from square k of the row-major scan
\* on: the scan goes on to the next square that holds a piece of that colour
RECURSIVE getAllLegalMovesInStore(_, _, _, _, _, _)
getAllLegalMovesInStore(store, ref, color, lm, k, allMoves) ==
    LET own == {x \in k..63 : store[ref[x \div 8]][x % 8] # Null
                              /\ store[ref[x \div 8]][x % 8].color = color}
    IN  IF own = {} THEN [store |-> store, moves |-> allMoves]
        ELSE LET n == CHOOSE x \in own : \A y \in own : x <= y
                 from == Position(n \div 8, n % 8)
                 out == getLegalMovesInStore(store, ref, from, lm)
             IN  getAllLegalMovesInStore(out.store, ref, color, lm, n + 1,
                     allMoves \cup {[from |-> from, to |-> t] : t \in out.moves})

(***************************************************************************)
(* App.tsx: the game state and its reducers                                *)
(***************************************************************************)
GameState ==
    [board |-> board, currentPlayer |-> currentPlayer, history |-> history,
     status |-> status, winner |-> winner, selectedSquare |-> selectedSquare,
     lastMove |-> lastMove, capturedWhite |-> capturedWhite,
     capturedBlack |-> capturedBlack, isFlipped |-> isFlipped,
     timers |-> timers]

\* faulty variant of movedPiece: the piece is not marked as moved
movedPiece_Unmarked(old, promotedTo) ==
    [old EXCEPT !.type = IF promotedTo # "none" THEN promotedTo ELSE @]

\* faulty variant of movedPiece: the promoted archetype is ignored
movedPiece_StaysPawn(old, promotedTo) == [old EXCEPT !.hasMoved = TRUE]

\* the moving piece as executeMove places it: marked moved, and of the
\* promoted archetype when one is supplied ("none" when the argument is omitted)
movedPiece(old, promotedTo) ==
    [old EXCEPT !.hasMoved = TRUE,
                !.type = IF promotedTo # "none" THEN promotedTo ELSE @]

gameStatus(mate, stalemate) ==
    IF mate THEN "CHECKMATE" ELSE IF stalemate THEN "STALEMATE" ELSE "PLAYING"

\* faulty variant of gameWinner: checkmate is credited to the side mated
gameWinner_Loser(mate, stalemate, mover) ==
    IF mate THEN Opponent(mover) ELSE IF stalemate THEN "draw" ELSE "null"

gameWinner(mate, stalemate, mover) ==
    IF mate THEN mover ELSE IF stalemate THEN "draw" ELSE "null"

\* faulty variant of castleRook: the rook is not marked as moved
castleRook_RookUnmarked(b, from, to) ==
    LET rookCol == IF to.col > from.col THEN 7 ELSE 0
        rookNewCol == IF to.col > from.col THEN 5 ELSE 3
    IN  [b EXCEPT ![from.row][rookCol] = Null,
                  ![from.row][rookNewCol] = b[from.row][rookCol]]

\* faulty variant of castleRook: the corner square is not cleared
castleRook_RookStays(b, from, to) ==
    LET rookCol == IF to.col > from.col THEN 7 ELSE 0
        rookNewCol == IF to.col > from.col THEN 5 ELSE 3
        rook == [b[from.row][rookCol] EXCEPT !.hasMoved = TRUE]
    IN  [b EXCEPT ![from.row][rookNewCol] = rook]

\* faulty variant of enPassantSquare: the square is looked for ahead of the
\* destination instead of behind it
enPassantSquare_Ahead(piece, to) ==
    Position(to.row - (IF piece.color = "white" THEN 1 ELSE -1), to.col)

\* the square of the pawn that an en passant capture removes
enPassantSquare(piece, to) ==
    Position(to.row + (IF piece.color = "white" THEN 1 ELSE -1), to.col)

\* the rook's half of a castling move
castleRook(b, from, to) ==
    LET rookCol == IF to.col > from.col THEN 7 ELSE 0
        rookNewCol == IF to.col > from.col THEN 5 ELSE 3
        rook == [b[from.row][rookCol] EXCEPT !.hasMoved = TRUE]
    IN  [b EXCEPT ![from.row][rookCol] = Null, ![from.row][rookNewCol] = rook]

\* the updater passed to setGameState by executeMove
executeMove(prev, from, to, promotedTo) ==
    LET piece == movedPiece(prev.board[from.row][from.col], promotedTo)
        captured == prev.board[to.row][to.col]
        isCastling == piece.type = "king" /\ Abs(from.col - to.col) = 2
        board1 == IF isCastling THEN castleRook(prev.board, from, to)
                  ELSE prev.board
        isEnPassant == piece.type = "pawn" /\ from.col # to.col /\ captured = Null
        ep == enPassantSquare(piece, to)
        finalCaptured == IF isEnPassant THEN board1[ep.row][ep.col] ELSE captured
        board2 == IF isEnPassant
                  THEN [board1 EXCEPT ![ep.row][ep.col] = Null]
                  ELSE board1
        newBoard == [board2 EXCEPT ![to.row][to.col] = piece,
                                   ![from.row][from.col] = Null]
        nextPlayer == Opponent(prev.currentPlayer)
        check == isKingInCheck(newBoard, nextPlayer)
        allLegalMoves ==
            getAllLegalMoves(newBoard, nextPlayer,
                Move(from, to, piece, finalCaptured, FALSE, FALSE, FALSE, "none", ""))
        mate == check /\ allLegalMoves = {}
        stalemate == ~check /\ allLegalMoves = {}
        move == Move(from, to, piece, finalCaptured, isCastling, isEnPassant,
                     promotedTo # "none", promotedTo,
                     getAlgebraicNotation(from, to, piece, finalCaptured # Null,
                                          check, mate))
    IN  [prev EXCEPT
            !.board = newBoard,
            !.currentPlayer = nextPlayer,
            !.history = Append(prev.history, move),
            !.lastMove = move,
            !.selectedSquare = NoPos,
            !.status = gameStatus(mate, stalemate),
            !.winner = gameWinner(mate, stalemate, prev.currentPlayer),
            !.capturedWhite = IF finalCaptured.color = "white"
                              THEN Append(prev.capturedWhite, finalCaptured) ELSE @,
            !.capturedBlack = IF finalCaptured.color = "black"
                              THEN Append(prev.capturedBlack, finalCaptured) ELSE @]

NoPending == [from |-> NoPos, to |-> NoPos]

(***************************************************************************)
(* Bounds of the exploration.  The clicks that commit a move are drawn     *)
(* from the opening lines of Book, plus at most MaxFree further plies of   *)
(* any legal move once a game has left the book; the board is clicked      *)
(* only while such a move is still to come.                                *)
(***************************************************************************)
MaxFree == 1

Ply(fr, fc, tr, tc) == [from |-> Position(fr, fc), to |-> Position(tr, tc)]

\* 1.f3 e5 2.g4 Qh4#
FoolsMate ==
    <<Ply(6, 5, 5, 5), Ply(1, 4, 3, 4), Ply(6, 6, 4, 6), Ply(0, 3, 4, 7)>>

\* 1.e4 e5 2.Bc4 Nc6 3.Qh5 Nf6 4.Qxf7#
ScholarsMate ==
    <<Ply(6, 4, 4, 4), Ply(1, 4, 3, 4), Ply(7, 5, 4, 2), Ply(0, 1, 2, 2),
      Ply(7, 3, 3, 7), Ply(0, 6, 2, 5), Ply(3, 7, 1, 5)>>

\* 1.e4 e5 2.Bc4 Bc5 3.Nh3 Nf6 4.O-O O-O
CastleKingside ==
    <<Ply(6, 4, 4, 4), Ply(1, 4, 3, 4), Ply(7, 5, 4, 2), Ply(0, 5, 3, 2),
      Ply(7, 6, 5, 7), Ply(0, 6, 2, 5), Ply(7, 4, 7, 6), Ply(0, 4, 0, 6)>>

\* 1.e4 e5 2.Bc4 Bc5 3.Nh3 Nf6 4.f3 O-O: g1 is attacked by the bishop on c5
CastleLandingAttacked ==
    <<Ply(6, 4, 4, 4), Ply(1, 4, 3, 4), Ply(7, 5, 4, 2), Ply(0, 5, 3, 2),
      Ply(7, 6, 5, 7), Ply(0, 6, 2, 5), Ply(6, 5, 5, 5), Ply(0, 4, 0, 6)>>

\* 1.e4 e5 2.Bc4 Bc5 3.Nh3 Nf6 4.Rg1 O-O 5.Rh1 a6: the rook is back on h1
CastleRookMoved ==
    <<Ply(6, 4, 4, 4), Ply(1, 4, 3, 4), Ply(7, 5, 4, 2), Ply(0, 5, 3, 2),
      Ply(7, 6, 5, 7), Ply(0, 6, 2, 5), Ply(7, 7, 7, 6), Ply(0, 4, 0, 6),
      Ply(7, 6, 7, 7), Ply(1, 0, 2, 0)>>

\* 1.d4 d5 2.Nc3 Nc6 3.Bf4 Bf5 4.Qd2 Qd7 5.O-O-O O-O-O
CastleQueenside ==
    <<Ply(6, 3, 4, 3), Ply(1, 3, 3, 3), Ply(7, 1, 5, 2), Ply(0, 1, 2, 2),
      Ply(7, 2, 4, 5), Ply(0, 2, 3, 5), Ply(7, 3, 6, 3), Ply(0, 3, 1, 3),
      Ply(7, 4, 7, 2), Ply(0, 4, 0, 2)>>

\* 1.e4 e6 2.Bc4 c6 3.Nf3 d5 4.d3 Bb4+: the king is in check, f1 and g1 are safe
CastleInCheck ==
    <<Ply(6, 4, 4, 4), Ply(1, 4, 2, 4), Ply(7, 5, 4, 2), Ply(1, 2, 2, 2),
      Ply(7, 6, 5, 5), Ply(1, 3, 3, 3), Ply(6, 3, 5, 3), Ply(0, 5, 4, 1)>>

\* 1.e4 b6 2.Bc4 Ba6 3.Nf3 Bxc4: f1 is attacked by the bishop on c4
CastleThroughCheck ==
    <<Ply(6, 4, 4, 4), Ply(1, 1, 2, 1), Ply(7, 5, 4, 2), Ply(0, 2, 2, 0),
      Ply(7, 6, 5, 5), Ply(2, 0, 4, 2)>>

\* 1.e4 a6 2.e5 d5 3.exd6
EnPassantWhite ==
    <<Ply(6, 4, 4, 4), Ply(1, 0, 2, 0), Ply(4, 4, 3, 4), Ply(1, 3, 3, 3),
      Ply(3, 4, 2, 3)>>

\* 1.a3 d5 2.a4 d4 3.e4 dxe3
EnPassantBlack ==
    <<Ply(6, 0, 5, 0), Ply(1, 3, 3, 3), Ply(5, 0, 4, 0), Ply(3, 3, 4, 3),
      Ply(6, 4, 4, 4), Ply(4, 3, 5, 4)>>

\* 1.a3 d5 2.a4 d4 3.e4 a6 4.h3: the double step is no longer the last move
EnPassantExpired ==
    <<Ply(6, 0, 5, 0), Ply(1, 3, 3, 3), Ply(5, 0, 4, 0), Ply(3, 3, 4, 3),
      Ply(6, 4, 4, 4), Ply(1, 0, 2, 0), Ply(6, 7, 5, 7)>>

\* 1.d4 b6 2.d5 Bb7 3.Kd2 a6 4.Kd3 a5 5.Ke4 e5: the d5 pawn shields the king from b7
EnPassantPinned ==
    <<Ply(6, 3, 4, 3), Ply(1, 1, 2, 1), Ply(4, 3, 3, 3), Ply(0, 2, 1, 1),
      Ply(7, 4, 6, 3), Ply(1, 0, 2, 0), Ply(6, 3, 5, 3), Ply(2, 0, 3, 0),
      Ply(5, 3, 4, 4), Ply(1, 4, 3, 4)>>

\* 1.a4 b5 2.axb5 a6 3.bxa6 Bb7 4.axb7 Nc6 5.bxa8
Promotion ==
    <<Ply(6, 0, 4, 0), Ply(1, 1, 3, 1), Ply(4, 0, 3, 1), Ply(1, 0, 2, 0),
      Ply(3, 1, 2, 0), Ply(0, 2, 1, 1), Ply(2, 0, 1, 1), Ply(0, 1, 2, 2),
      Ply(1, 1, 0, 0)>>

\* 1.e3 a5 2.Qh5 Ra6 3.Qxa5 h5 4.h4 Rah6 5.Qxc7 f6 6.Qxd7+ Kf7 7.Qxb7 Qd3 8.Qxb8 Qh7 9.Qxc8 Kg6 10.Qe6 stalemate
LoydStalemate ==
    <<Ply(6, 4, 5, 4), Ply(1, 0, 3, 0), Ply(7, 3, 3, 7), Ply(0, 0, 2, 0),
      Ply(3, 7, 3, 0), Ply(1, 7, 3, 7), Ply(6, 7, 4, 7), Ply(2, 0, 2, 7),
      Ply(3, 0, 1, 2), Ply(1, 5, 2, 5), Ply(1, 2, 1, 3), Ply(0, 4, 1, 5),
      Ply(1, 3, 1, 1), Ply(0, 3, 5, 3), Ply(1, 1, 0, 1), Ply(5, 3, 1, 7),
      Ply(0, 1, 0, 2), Ply(1, 5, 2, 6), Ply(0, 2, 2, 4)>>

Book ==
    {FoolsMate, ScholarsMate, CastleKingside, CastleLandingAttacked,
     CastleRookMoved, CastleQueenside, CastleInCheck,
     CastleThroughCheck, EnPassantWhite, EnPassantBlack,
     EnPassantExpired, EnPassantPinned, Promotion,
     LoydStalemate}

Plies(h) == [i \in 1..Len(h) |-> [from |-> h[i].from, to |-> h[i].to]]

IsPrefix(p, line) == Len(p) <= Len(line) /\ \A i \in 1..Len(p) : p[i] = line[i]

\* the number of leading plies of h that follow line, counted from ply i
RECURSIVE CommonPrefix(_, _, _)
CommonPrefix(h, line, i) ==
    IF i <= Len(h) /\ i <= Len(line)
       /\ h[i].from = line[i].from /\ h[i].to = line[i].to
    THEN CommonPrefix(h, line, i + 1)
    ELSE i - 1

\* number of plies played after the game left the book
OffBook(h) ==
    LET followed == {CommonPrefix(h, line, 1) : line \in Book}
    IN  Len(h) - (CHOOSE n \in followed : \A m \in followed : m <= n)

WithinBounds(h, from, to) ==
    OffBook(Append(h, [from |-> from, to |-> to])) <= MaxFree

MoveToCome(h) ==
    \/ OffBook(h) < MaxFree
    \/ \E line \in Book : Len(h) < Len(line) /\ CommonPrefix(h, line, 1) = Len(h)

(***************************************************************************)
(* Initial state: useState in App                                          *)
(***************************************************************************)
\* no call has been made to the engine from outside App
NoQuery == [fn |-> "none", args |-> <<>>, threw |-> FALSE, result |-> <<>>]

Init ==
    /\ board = createInitialBoard
    /\ currentPlayer = "white"
    /\ history = <<>>
    /\ status = "MENU"
    /\ winner = "null"
    /\ selectedSquare = NoPos
    /\ lastMove = NoMove
    /\ capturedWhite = <<>>
    /\ capturedBlack = <<>>
    /\ isFlipped = FALSE
    /\ timers = [white |-> 600, black |-> 600]
    /\ promotionPending = NoPending
    /\ query = NoQuery

\* setGameState(updater): the next state is the updater's result
SetGameState(result) ==
    \E s \in {result} :
        /\ board' = s.board
        /\ currentPlayer' = s.currentPlayer
        /\ history' = s.history
        /\ status' = s.status
        /\ winner' = s.winner
        /\ selectedSquare' = s.selectedSquare
        /\ lastMove' = s.lastMove
        /\ capturedWhite' = s.capturedWhite
        /\ capturedBlack' = s.capturedBlack
        /\ isFlipped' = s.isFlipped
        /\ timers' = s.timers

startGame(prev) ==
    [prev EXCEPT !.status = "PLAYING", !.board = createInitialBoard,
                 !.history = <<>>, !.currentPlayer = "white",
                 !.lastMove = NoMove, !.capturedWhite = <<>>,
                 !.capturedBlack = <<>>, !.winner = "null"]

\* the buttons "Start New Game" (menu) and "Play Again" (result overlay)
StartGame ==
    /\ promotionPending = NoPending
    /\ status \in {"MENU", "CHECKMATE", "STALEMATE"}
    /\ SetGameState(startGame(GameState))
    /\ UNCHANGED <<promotionPending, query>>

\* "Restart Game" / "New Game": startGame behind window.confirm
ResetGame ==
    /\ promotionPending = NoPending
    /\ status # "MENU"
    /\ \E confirm \in BOOLEAN :
          IF confirm THEN SetGameState(startGame(GameState))
          ELSE UNCHANGED <<board, currentPlayer, history, status, winner,
                           selectedSquare, lastMove, capturedWhite,
                           capturedBlack, isFlipped, timers>>
    /\ UNCHANGED <<promotionPending, query>>

TogglePause ==
    /\ promotionPending = NoPending
    /\ status # "MENU"
    /\ status' = IF status = "PLAYING" THEN "PAUSED" ELSE "PLAYING"
    /\ UNCHANGED <<board, currentPlayer, history, winner, selectedSquare,
                   lastMove, capturedWhite, capturedBlack, isFlipped, timers,
                   promotionPending, query>>

GoToMenu ==
    /\ promotionPending = NoPending
    /\ status # "MENU"
    /\ \E confirm \in BOOLEAN :
          IF status = "PLAYING" /\ ~confirm THEN status' = status
          ELSE status' = "MENU"
    /\ UNCHANGED <<board, currentPlayer, history, winner, selectedSquare,
                   lastMove, capturedWhite, capturedBlack, isFlipped, timers,
                   promotionPending, query>>

\* the useMemo value of the current render
validMoves ==
    IF selectedSquare = NoPos THEN {}
    ELSE getLegalMoves(board, selectedSquare, lastMove)

\* legal is the memoised validMoves of the render the click happens in
HandleSquareClick(row, col, legal) ==
    /\ promotionPending = NoPending
    /\ status = "PLAYING"
    /\ UNCHANGED query
    /\ LET piece == board[row][col] IN
       IF piece # Null /\ piece.color = currentPlayer
       THEN /\ selectedSquare' = Position(row, col)
            /\ UNCHANGED <<board, currentPlayer, history, status, winner,
                           lastMove, capturedWhite, capturedBlack, isFlipped,
                           timers, promotionPending>>
       ELSE IF selectedSquare # NoPos
       THEN IF Position(row, col) \in legal
            THEN /\ WithinBounds(history, selectedSquare, Position(row, col))
                 /\ IF board[selectedSquare.row][selectedSquare.col].type = "pawn"
                       /\ (row = 0 \/ row = 7)
                    THEN /\ promotionPending' =
                               [from |-> selectedSquare, to |-> Position(row, col)]
                         /\ UNCHANGED <<board, currentPlayer, history, status,
                                        winner, selectedSquare, lastMove,
                                        capturedWhite, capturedBlack, isFlipped,
                                        timers>>
                    ELSE /\ SetGameState(executeMove(GameState, selectedSquare,
                                                     Position(row, col), "none"))
                         /\ promotionPending' = NoPending
            ELSE /\ selectedSquare' = NoPos
                 /\ UNCHANGED <<board, currentPlayer, history, status, winner,
                                lastMove, capturedWhite, capturedBlack,
                                isFlipped, timers, promotionPending>>
       ELSE UNCHANGED vars

\* The squares worth clicking in the current render: every piece of the side
\* to move, every legal destination, and one representative of all the other
\* squares, a click on any of which takes the same branches of
\* handleSquareClick with the same result.
ClickSquares(legal) ==
    LET all == {Position(r, c) : r \in Idx, c \in Idx}
        own == {p \in all : board[p.row][p.col] # Null
                             /\ board[p.row][p.col].color = currentPlayer}
        rest == all \ (own \cup legal)
    IN  own \cup legal \cup (IF rest = {} THEN {} ELSE {CHOOSE p \in rest : TRUE})

\* faulty variant of PromotionChoices: the dialog offers a king as well
PromotionChoices_WithKing == {"queen", "rook", "bishop", "knight", "king"}

\* a click on a square of the board, while a move is still to come
BoardClick ==
    /\ status = "PLAYING"
    /\ MoveToCome(history)
    /\ \E legal \in {validMoves} :
          \E sq \in ClickSquares(legal) : HandleSquareClick(sq.row, sq.col, legal)

PromotionChoices == {"queen", "rook", "bishop", "knight"}

HandlePromotion(type) ==
    /\ promotionPending # NoPending
    /\ SetGameState(executeMove(GameState, promotionPending.from,
                                promotionPending.to, type))
    /\ promotionPending' = NoPending
    /\ UNCHANGED query

Next ==
    \/ StartGame
    \/ ResetGame
    \/ TogglePause
    \/ GoToMenu
    \/ BoardClick
    \/ \E type \in PromotionChoices : HandlePromotion(type)

Spec == Init /\ [][Next]_vars

(***************************************************************************)
(* The engine called from outside App: one call, on inputs that App would  *)
(* not pass but that are in range - a board with a square emptied or with  *)
(* a pawn put on it, any square of two columns, a last move that is none   *)
(* or a pawn's double step.                                                *)
(***************************************************************************)
Call(fn, args, threw, result) ==
    [fn |-> fn, args |-> args, threw |-> threw, result |-> result]

EngineColumns == {3, 4}

EnginePositions == {Position(r, c) : r \in Idx, c \in EngineColumns}

EnginePieces ==
    {Null, Piece(64, "pawn", "white", TRUE), Piece(65, "pawn", "black", TRUE)}

EngineBoards ==
    {[createInitialBoard EXCEPT ![p.row][p.col] = x] :
        p \in EnginePositions, x \in EnginePieces}

\* where a double step that lands on t started, for a pawn of that colour
DoubleStepFrom(t, color) ==
    Position(IF color = "white" THEN t.row + 2 ELSE t.row - 2, t.col)

EngineLastMoves ==
    {NoMove} \cup
    {Move(DoubleStepFrom(x[1], x[2]), x[1], Piece(66, "pawn", x[2], TRUE), Null,
          FALSE, FALSE, FALSE, "none", "") :
        x \in {y \in {p \in EnginePositions : p.row \in {0, 3, 4, 7}} \X Color :
                  DoubleStepFrom(y[1], y[2]).row \in Idx}}

NotationFrom == {Position(7, c) : c \in Idx}

NotationTo == {Position(r, c) : r \in Idx, c \in Idx}

\* simulatedBoard[m.row][m.col] (chessLogic.ts:177) for a raw move whose row
\* is no index of the board: simulatedBoard[m.row] is undefined, and reading
\* a property of undefined throws a TypeError out of getLegalMoves
throwsTypeError(b, pos, lm) ==
    /\ b[pos.row][pos.col] # Null
    /\ \E m \in getPieceMoves(b, pos, lm, FALSE) : m.row \notin Idx

CallGetAlgebraicNotation ==
    /\ query = NoQuery
    /\ \E from \in NotationFrom, to \in NotationTo, type \in PieceType,
          captured \in BOOLEAN, check \in BOOLEAN, mate \in BOOLEAN :
          LET piece == Piece(0, type, "white", TRUE) IN
          query' = Call("getAlgebraicNotation",
                        <<from, to, piece, captured, check, mate>>, FALSE,
                        getAlgebraicNotation(from, to, piece, captured, check, mate))
    /\ UNCHANGED <<board, currentPlayer, history, status, winner, selectedSquare,
                   lastMove, capturedWhite, capturedBlack, isFlipped, timers,
                   promotionPending>>

CallGetPieceMoves ==
    /\ query = NoQuery
    /\ \E b \in EngineBoards, pos \in EnginePositions, lm \in EngineLastMoves :
          query' = Call("getPieceMoves", <<b, pos, lm>>, FALSE,
                        getPieceMoves(b, pos, lm, FALSE))
    /\ UNCHANGED <<board, currentPlayer, history, status, winner, selectedSquare,
                   lastMove, capturedWhite, capturedBlack, isFlipped, timers,
                   promotionPending>>

CallGetLegalMoves ==
    /\ query = NoQuery
    /\ \E b \in EngineBoards, pos \in EnginePositions, lm \in EngineLastMoves :
          query' = IF throwsTypeError(b, pos, lm)
                   THEN Call("getLegalMoves", <<b, pos, lm>>, TRUE, {})
                   ELSE Call("getLegalMoves", <<b, pos, lm>>, FALSE,
                             getLegalMoves(b, pos, lm))
    /\ UNCHANGED <<board, currentPlayer, history, status, winner, selectedSquare,
                   lastMove, capturedWhite, capturedBlack, isFlipped, timers,
                   promotionPending>>

CallFindKing ==
    /\ query = NoQuery
    /\ \E b \in EngineBoards, color \in Color :
          query' = Call("findKing", <<b, color>>, FALSE, findKing(b, color))
    /\ UNCHANGED <<board, currentPlayer, history, status, winner, selectedSquare,
                   lastMove, capturedWhite, capturedBlack, isFlipped, timers,
                   promotionPending>>

CallIsKingInCheck ==
    /\ query = NoQuery
    /\ \E b \in EngineBoards, color \in Color :
          query' = Call("isKingInCheck", <<b, color>>, FALSE, isKingInCheck(b, color))
    /\ UNCHANGED <<board, currentPlayer, history, status, winner, selectedSquare,
                   lastMove, capturedWhite, capturedBlack, isFlipped, timers,
                   promotionPending>>

NextEngine ==
    \/ CallGetAlgebraicNotation
    \/ CallGetPieceMoves
    \/ CallGetLegalMoves
    \/ CallFindKing
    \/ CallIsKingInCheck

SpecEngine == Init /\ [][NextEngine]_vars

(***************************************************************************)
(* The countdown: the interval of the timer effect (App.tsx 185-200) and   *)
(* the Flip button, over the games FoolsMate and Promotion.  The clocks    *)
(* start at MaxClock seconds instead of 600.                               *)
(***************************************************************************)
MaxClock == 1

\* the state of a session that was started, ran until both clocks were down
\* to MaxClock, was restarted and left for the menu
InitClock ==
    /\ board = createInitialBoard
    /\ currentPlayer = "white"
    /\ history = <<>>
    /\ status = "MENU"
    /\ winner = "null"
    /\ selectedSquare = NoPos
    /\ lastMove = NoMove
    /\ capturedWhite = <<>>
    /\ capturedBlack = <<>>
    /\ isFlipped = FALSE
    /\ timers = [white |-> MaxClock, black |-> MaxClock]
    /\ promotionPending = NoPending
    /\ query = NoQuery

\* faulty variant of tickTimers: the clock runs below zero
tickTimers_Unclamped(prev) ==
    [prev.timers EXCEPT ![prev.currentPlayer] = @ - 1]

\* the updater of the interval callback
tickTimers(prev) ==
    [prev.timers EXCEPT ![prev.currentPlayer] = IF @ - 1 > 0 THEN @ - 1 ELSE 0]

\* the interval exists in the renders whose status is PLAYING: the effect
\* clears it and sets it again when status or currentPlayer changes
Tick ==
    /\ status = "PLAYING"
    /\ timers' = tickTimers(GameState)
    /\ UNCHANGED <<board, currentPlayer, history, status, winner,
                   selectedSquare, lastMove, capturedWhite, capturedBlack,
                   isFlipped, promotionPending, query>>

\* the Flip button of the game screen, under the pause screen while PAUSED
\* and under the promotion dialog while a promotion is pending
Flip ==
    /\ promotionPending = NoPending
    /\ status \notin {"MENU", "PAUSED"}
    /\ isFlipped' = ~isFlipped
    /\ UNCHANGED <<board, currentPlayer, history, status, winner,
                   selectedSquare, lastMove, capturedWhite, capturedBlack,
                   timers, promotionPending, query>>

ClockLines == {FoolsMate, Promotion}

OnClockLine(h, from, to) ==
    \E line \in ClockLines :
        IsPrefix(Append(Plies(h), [from |-> from, to |-> to]), line)

\* a click on a square of the board; a click that commits a move or opens
\* the promotion dialog follows one of ClockLines
ClockBoardClick ==
    /\ status = "PLAYING"
    /\ \E legal \in {validMoves} :
          \E sq \in ClickSquares(legal) :
              /\ \/ board[sq.row][sq.col] # Null
                    /\ board[sq.row][sq.col].color = currentPlayer
                 \/ selectedSquare = NoPos
                 \/ sq \notin legal
                 \/ OnClockLine(history, selectedSquare, sq)
              /\ HandleSquareClick(sq.row, sq.col, legal)

NextClock ==
    \/ StartGame
    \/ ResetGame
    \/ TogglePause
    \/ GoToMenu
    \/ ClockBoardClick
    \/ \E type \in PromotionChoices : HandlePromotion(type)
    \/ Tick
    \/ Flip

SpecClock == InitClock /\ [][NextClock]_vars

(***************************************************************************)
(* Properties                                                              *)
(***************************************************************************)
KingSquares(b, color) ==
    {k \in 0..63 : b[k \div 8][k % 8].type = "king" /\ b[k \div 8][k % 8].color = color}

\* C1: after any committed move (castling, en passant and promotion
\* included) the king of the side that just moved is not in check.
C1_MoverNotInCheck ==
    lastMove # NoMove => ~isKingInCheck(board, lastMove.piece.color)

\* a move committed by a side that was in check (after 4...Bb4+)
C1_Witness ==
    /\ Len(history) = Len(CastleInCheck) + 1
    /\ IsPrefix(CastleInCheck, Plies(history))
    /\ lastMove.piece.color = "white"
    /\ findKing(board, "white") # NoPos
    /\ ~isKingInCheck(board, "white")

\* C2: every reachable board holds exactly one white king and exactly one
\* black king.
C2_OneKingEach ==
    /\ Cardinality(KingSquares(board, "white")) = 1
    /\ Cardinality(KingSquares(board, "black")) = 1

\* a board after a capture by promotion
C2_Witness ==
    /\ lastMove.isPromotion
    /\ lastMove.captured # Null
    /\ Cardinality(KingSquares(board, "white")) = 1
    /\ Cardinality(KingSquares(board, "black")) = 1

\* C3: each committed move classifies the position of the side to move next
\* (the opponent of the mover): no legal move and in check is checkmate won by
\* the mover, no legal move and not in check is stalemate and a draw,
\* otherwise the game goes on with no winner.
C3_TerminalDetection ==
    [][(history' # history /\ history' # <<>>) =>
          LET nextSide == Opponent(lastMove'.piece.color)
              moves == getAllLegalMoves(board', nextSide, lastMove')
              check == isKingInCheck(board', nextSide)
          IN  IF moves = {} /\ check
              THEN status' = "CHECKMATE" /\ winner' = lastMove'.piece.color
              ELSE IF moves = {}
              THEN status' = "STALEMATE" /\ winner' = "draw"
              ELSE status' = "PLAYING" /\ winner' = "null"]_vars

\* the stalemate that ends Loyd's game
C3_Witness ==
    /\ Plies(history) = LoydStalemate
    /\ status = "STALEMATE"
    /\ winner = "draw"
    /\ ~isKingInCheck(board, "black")

\* C4: from the initial board with white to move, each move of
\* 1.e4 e5 2.Bc4 Nc6 3.Qh5 Nf6 4.Qxf7 is a legal destination of a piece of
\* the side to move when its turn comes, committing it leaves the game in
\* play until the last one, and committing that one ends it in checkmate won
\* by white, with black in check and without a legal move.
C4_ScholarsMate ==
    [][LET p == Plies(history)
           n == Len(p)
           p1 == Plies(history')
       IN  /\ (IsPrefix(p, ScholarsMate) /\ n < Len(ScholarsMate)
                  /\ status = "PLAYING") =>
                 LET next == ScholarsMate[n + 1] IN
                 /\ currentPlayer = (IF n % 2 = 0 THEN "white" ELSE "black")
                 /\ board[next.from.row][next.from.col].color = currentPlayer
                 /\ next.to \in getLegalMoves(board, next.from, lastMove)
           /\ (history' # history /\ history' # <<>> /\ IsPrefix(p1, ScholarsMate)) =>
                 IF p1 = ScholarsMate
                 THEN /\ status' = "CHECKMATE"
                      /\ winner' = "white"
                      /\ isKingInCheck(board', "black")
                      /\ getAllLegalMoves(board', "black", lastMove') = {}
                 ELSE status' = "PLAYING" /\ winner' = "null"]_vars

C4_Witness ==
    /\ Plies(history) = ScholarsMate
    /\ status = "CHECKMATE"
    /\ winner = "white"

(***************************************************************************)
(* The rules of chess, stated without the engine: when a piece on one      *)
(* square attacks another square, whatever stands there.                   *)
(***************************************************************************)
Sign(x) == IF x > 0 THEN 1 ELSE IF x < 0 THEN -1 ELSE 0

Max(x, y) == IF x > y THEN x ELSE y

ClearBetween(b, from, to) ==
    LET dr == Sign(to.row - from.row)
        dc == Sign(to.col - from.col)
        n == Max(Abs(to.row - from.row), Abs(to.col - from.col))
    IN  \A k \in 1..(n - 1) : b[from.row + k * dr][from.col + k * dc] = Null

PieceAttacks(b, from, to) ==
    LET p == b[from.row][from.col]
        dr == to.row - from.row
        dc == to.col - from.col
        straight == (dr = 0) # (dc = 0)
        diagonal == Abs(dr) = Abs(dc) /\ dr # 0
    IN  CASE p.type = "pawn" ->
                dr = (IF p.color = "white" THEN -1 ELSE 1) /\ Abs(dc) = 1
          [] p.type = "knight" -> {Abs(dr), Abs(dc)} = {1, 2}
          [] p.type = "king" -> Max(Abs(dr), Abs(dc)) = 1
          [] p.type = "rook" -> straight /\ ClearBetween(b, from, to)
          [] p.type = "bishop" -> diagonal /\ ClearBetween(b, from, to)
          [] p.type = "queen" -> (straight \/ diagonal) /\ ClearBetween(b, from, to)
          [] OTHER -> FALSE

AttackedBy(b, sq, color) ==
    \E r \in Idx, c \in Idx :
        b[r][c].color = color /\ PieceAttacks(b, Position(r, c), sq)

\* the castling of the king on (row, 4) towards the rook on (row, rookCol):
\* the square the king crosses, the square it lands on, where the rook
\* lands, and the squares between king and rook
Castlings ==
    {[row |-> row, rookCol |-> 7, cross |-> 5, land |-> 6, rookTo |-> 5,
      between |-> {5, 6}, notation |-> "O-O"] : row \in {0, 7}}
    \cup
    {[row |-> row, rookCol |-> 0, cross |-> 3, land |-> 2, rookTo |-> 3,
      between |-> {1, 2, 3}, notation |-> "O-O-O"] : row \in {0, 7}}

CastlingReady(b, x) ==
    LET king == b[x.row][4]
        rook == b[x.row][x.rookCol]
    IN  /\ king.type = "king" /\ ~king.hasMoved
        /\ rook.type = "rook" /\ ~rook.hasMoved
        /\ \A c \in x.between : b[x.row][c] = Null

\* C5: an unmoved king on (row, 4) and an unmoved rook on (row, 7) with
\* (row, 5) and (row, 6) empty, the king not in check and neither square
\* attacked by the opponent: (row, 6) is a legal move of the king; and once it
\* is committed the king is on (row, 6), the rook on (row, 5), both marked
\* moved, (row, 4) and (row, 7) are empty and the notation is "O-O".  The same
\* on the queen's side with (row, 2), (row, 0), (row, 3) and "O-O-O".
C5_Castling ==
    \A x \in Castlings :
        /\ (/\ CastlingReady(board, x)
            /\ ~isKingInCheck(board, board[x.row][4].color)
            /\ ~AttackedBy(board, Position(x.row, x.cross),
                           Opponent(board[x.row][4].color))
            /\ ~AttackedBy(board, Position(x.row, x.land),
                           Opponent(board[x.row][4].color)))
           => Position(x.row, x.land)
                 \in getLegalMoves(board, Position(x.row, 4), lastMove)
        /\ (/\ lastMove.piece.type = "king"
            /\ lastMove.from = Position(x.row, 4)
            /\ lastMove.to = Position(x.row, x.land))
           => /\ board[x.row][x.land].type = "king"
              /\ board[x.row][x.land].color = lastMove.piece.color
              /\ board[x.row][x.land].hasMoved
              /\ board[x.row][x.rookTo].type = "rook"
              /\ board[x.row][x.rookTo].color = lastMove.piece.color
              /\ board[x.row][x.rookTo].hasMoved
              /\ board[x.row][4] = Null
              /\ board[x.row][x.rookCol] = Null
              /\ lastMove.notation = x.notation

\* black has just castled on the king's side, after white did
C5_Witness ==
    /\ Plies(history) = CastleKingside
    /\ lastMove.notation = "O-O"
    /\ board[0][6].type = "king"
    /\ board[0][5].type = "rook"
    /\ board[7][6].type = "king"
    /\ board[7][5].type = "rook"

\* C6: a legal move of a king never moves it two columns when the king is
\* in check, when the square it crosses or the square it lands on is
\* attacked, when the king or the rook of that corner has moved, or when a
\* square between them is occupied.
C6_NoCastlingUnderAttack ==
    \A color \in Color :
        LET kingPos == findKing(board, color) IN
        \A m \in getLegalMoves(board, kingPos, lastMove) :
            Abs(m.col - kingPos.col) = 2 =>
                \E x \in Castlings :
                    /\ kingPos = Position(x.row, 4)
                    /\ m = Position(x.row, x.land)
                    /\ CastlingReady(board, x)
                    /\ board[x.row][x.rookCol].color = color
                    /\ ~isKingInCheck(board, color)
                    /\ ~AttackedBy(board, kingPos, Opponent(color))
                    /\ ~AttackedBy(board, Position(x.row, x.cross), Opponent(color))
                    /\ ~AttackedBy(board, Position(x.row, x.land), Opponent(color))

\* the king is in check with both squares beside it empty and safe, and
\* castling is among its raw moves but not among its legal ones
C6_Witness ==
    /\ Plies(history) = CastleInCheck
    /\ isKingInCheck(board, "white")
    /\ CastlingReady(board, [row |-> 7, rookCol |-> 7, cross |-> 5, land |-> 6,
                             rookTo |-> 5, between |-> {5, 6}, notation |-> "O-O"])
    /\ ~AttackedBy(board, Position(7, 5), "black")
    /\ ~AttackedBy(board, Position(7, 6), "black")
    /\ Position(7, 6) \in getPieceMoves(board, Position(7, 4), lastMove, FALSE)
    /\ Position(7, 6) \notin getLegalMoves(board, Position(7, 4), lastMove)

(***************************************************************************)
(* En passant                                                              *)
(***************************************************************************)
\* the last move was a pawn advancing two ranks (the pawn stands where it landed)
DoubleStep(b, lm) ==
    /\ lm # NoMove
    /\ b[lm.to.row][lm.to.col].type = "pawn"
    /\ lm.from.col = lm.to.col
    /\ Abs(lm.from.row - lm.to.row) = 2

PassedOver(lm) == Position((lm.from.row + lm.to.row) \div 2, lm.to.col)

\* the pawns of the side to move that stand beside the pawn that just
\* advanced two ranks
Capturers(b, lm, side) ==
    IF ~DoubleStep(b, lm) \/ b[lm.to.row][lm.to.col].color = side THEN {}
    ELSE {p \in {Position(lm.to.row, lm.to.col - 1), Position(lm.to.row, lm.to.col + 1)} :
             /\ isWithinBoard(p.row, p.col)
             /\ b[p.row][p.col].type = "pawn"
             /\ b[p.row][p.col].color = side}

\* the board after the pawn on from has taken the pawn of lm en passant
AfterEnPassant(b, from, lm) ==
    [b EXCEPT ![PassedOver(lm).row][PassedOver(lm).col] = b[from.row][from.col],
              ![from.row][from.col] = Null,
              ![lm.to.row][lm.to.col] = Null]

\* the king of that side is attacked, by the rules of chess
KingAttacked(b, side) ==
    \E k \in KingSquares(b, side) :
        AttackedBy(b, Position(k \div 8, k % 8), Opponent(side))

\* what committing an en passant capture did, read from the last two moves
EnPassantCommitted ==
    LET n == Len(history)
        prev == history[n - 1]
        last == history[n]
        taken == IF prev.piece.color = "white" THEN capturedWhite ELSE capturedBlack
    IN  (/\ n >= 2
         /\ prev.piece.type = "pawn"
         /\ prev.from.col = prev.to.col
         /\ Abs(prev.from.row - prev.to.row) = 2
         /\ last.piece.type = "pawn"
         /\ last.piece.color # prev.piece.color
         /\ last.from.row = prev.to.row
         /\ Abs(last.from.col - prev.to.col) = 1
         /\ last.to = PassedOver(prev))
        => /\ board[prev.to.row][prev.to.col] = Null
           /\ board[last.to.row][last.to.col].type = "pawn"
           /\ board[last.to.row][last.to.col].color = last.piece.color
           /\ board[last.from.row][last.from.col] = Null
           /\ last.captured.type = "pawn"
           /\ last.captured.id = prev.piece.id
           /\ last.captured.color = prev.piece.color
           /\ last.isEnPassant
           /\ taken # <<>>
           /\ taken[Len(taken)] = last.captured

\* a pawn of the side to move has a diagonal move onto an empty square only
\* on the ply directly after the double step it captures
EnPassantOnlyNextPly ==
    \A r \in Idx, c \in Idx :
        (board[r][c].type = "pawn" /\ board[r][c].color = currentPlayer) =>
            \A m \in getLegalMoves(board, Position(r, c), lastMove) :
                (m.col # c /\ board[m.row][m.col] = Null) =>
                    /\ DoubleStep(board, lastMove)
                    /\ lastMove.to = Position(r, m.col)
                    /\ PassedOver(lastMove) = m
                    /\ board[lastMove.to.row][lastMove.to.col].color # currentPlayer

\* C7 as amended: after an enemy pawn's double step that lands beside a pawn
\* of the side to move, the square passed over is a legal destination of that
\* pawn unless the capture would leave its own king attacked; committing it
\* empties the landing square of the enemy pawn, puts the capturing pawn on
\* the square passed over, records the removed pawn as captured and sets
\* isEnPassant; and the option exists only on the ply directly after the
\* double step.
C7_EnPassant ==
    /\ \A p \in Capturers(board, lastMove, currentPlayer) :
          ~KingAttacked(AfterEnPassant(board, p, lastMove), currentPlayer)
             => PassedOver(lastMove) \in getLegalMoves(board, p, lastMove)
    /\ EnPassantCommitted
    /\ EnPassantOnlyNextPly

\* the claim's own example: white e2-e4, the black pawn on d4 takes on e3
C7_Witness ==
    /\ Plies(history) = EnPassantBlack
    /\ lastMove.isEnPassant
    /\ board[4][4] = Null
    /\ board[5][4].type = "pawn"
    /\ board[5][4].color = "black"
    /\ capturedWhite # <<>>

\* C7 as claimed: the square passed over is a legal destination of every
\* pawn of the side to move that stands beside the pawn that advanced two
\* ranks.
C7_AlwaysLegal ==
    \A p \in Capturers(board, lastMove, currentPlayer) :
        PassedOver(lastMove) \in getLegalMoves(board, p, lastMove)

(***************************************************************************)
(* Promotion                                                               *)
(***************************************************************************)
NoPawnOnLastRank(b) ==
    \A r \in {0, 7}, c \in Idx : b[r][c].type # "pawn"

\* C8: a click that sends a pawn to row 0 or 7 commits nothing and leaves the
\* choice pending; a pawn move to row 0 or 7 is committed only from a pending
\* choice, and then the destination holds a piece of the chosen archetype and
\* the pawn's colour, the source is empty and the Move has isPromotion set and
\* promotedTo equal to that archetype; no pawn ever stands on row 0 or 7.
C8_Promotion ==
    [][/\ NoPawnOnLastRank(board')
       /\ (promotionPending = NoPending /\ promotionPending' # NoPending) =>
             /\ board' = board /\ history' = history /\ lastMove' = lastMove
             /\ currentPlayer' = currentPlayer
             /\ board[promotionPending'.from.row][promotionPending'.from.col].type = "pawn"
             /\ promotionPending'.to.row \in {0, 7}
             /\ promotionPending'.to \in
                   getLegalMoves(board, promotionPending'.from, lastMove)
       /\ (history' # history /\ history' # <<>>) =>
             LET mv == lastMove'
                 old == board[mv.from.row][mv.from.col]
                 new == board'[mv.to.row][mv.to.col]
             IN  (old.type = "pawn" /\ mv.to.row \in {0, 7}) <=>
                    /\ promotionPending = [from |-> mv.from, to |-> mv.to]
                    /\ promotionPending' = NoPending
                    /\ mv.isPromotion
                    /\ mv.promotedTo \in {"queen", "rook", "bishop", "knight"}
                    /\ new.type = mv.promotedTo
                    /\ new.color = old.color
                    /\ new.id = old.id
                    /\ board'[mv.from.row][mv.from.col] = Null]_vars

\* the pawn on b7 has taken the rook on a8 and become a knight
C8_Witness ==
    /\ Plies(history) = Promotion
    /\ lastMove.isPromotion
    /\ lastMove.promotedTo = "knight"
    /\ board[0][0].type = "knight"
    /\ board[0][0].color = "white"
    /\ board[1][1] = Null
    /\ promotionPending = NoPending

(***************************************************************************)
(* The queries and the board they are given                                *)
(***************************************************************************)
\* getLegalMoves for the selected piece, as the render calls it, run twice on
\* the board in the store
SelectionQueries ==
    LET first == getLegalMovesInStore(Rows(board), BoardRef, selectedSquare, lastMove)
        second == getLegalMovesInStore(first.store, BoardRef, selectedSquare, lastMove)
    IN  /\ Deref(first.store, BoardRef) = board
        /\ Deref(second.store, BoardRef) = board
        /\ second.moves = first.moves
        /\ first.moves = getLegalMoves(board, selectedSquare, lastMove)

\* getAllLegalMoves for the side to move, as executeMove calls it after a
\* commit, run twice on the board in the store
SideToMoveQueries ==
    LET first == getAllLegalMovesInStore(Rows(board), BoardRef, currentPlayer,
                                         lastMove, 0, {})
        second == getAllLegalMovesInStore(first.store, BoardRef, currentPlayer,
                                          lastMove, 0, {})
    IN  /\ Deref(first.store, BoardRef) = board
        /\ Deref(second.store, BoardRef) = board
        /\ second.moves = first.moves
        /\ first.moves = getAllLegalMoves(board, currentPlayer, lastMove)

\* C9: a query leaves every square of the board passed to it holding the
\* same piece as before the call, through the simulations of the check and
\* of the castling path, and a second call on the same board returns what
\* the first call returned: for the legal moves of every selected piece, and
\* for all the legal moves of a side that is in check or whose game is over.
C9_QueriesPure ==
    /\ (status = "PLAYING" /\ selectedSquare # NoPos) => SelectionQueries
    /\ (status \in {"CHECKMATE", "STALEMATE"}
           \/ (status = "PLAYING" /\ isKingInCheck(board, currentPlayer)))
          => SideToMoveQueries

\* the legal moves of an unmoved king that may castle: the simulation has
\* written to a copy of the board and to a copy for the square it crosses
C9_Witness ==
    /\ status = "PLAYING"
    /\ selectedSquare = Position(7, 4)
    /\ board[7][4].type = "king"
    /\ Position(7, 6) \in getLegalMovesInStore(Rows(board), BoardRef,
                                               selectedSquare, lastMove).moves
    /\ Len(mapCopy(Rows(board), BoardRef).store) = 16
    /\ Deref(getLegalMovesInStore(Rows(board), BoardRef,
                                  selectedSquare, lastMove).store, BoardRef) = board

(***************************************************************************)
(* hasMoved                                                                *)
(***************************************************************************)
\* C11: a committed move never turns hasMoved of a piece from true to
\* false; every piece the move relocates (the rook of a castling move
\* included) has hasMoved true afterwards; and a piece that stays on its
\* square keeps its hasMoved.
C11_HasMovedMonotonic ==
    [][(history' # history /\ history' # <<>>) =>
          \A r \in Idx, c \in Idx :
              board'[r][c] # Null =>
                  \E r0 \in Idx, c0 \in Idx :
                      /\ board[r0][c0].id = board'[r][c].id
                      /\ board[r0][c0].hasMoved => board'[r][c].hasMoved
                      /\ (r0 = r /\ c0 = c) =>
                            board'[r][c].hasMoved = board[r0][c0].hasMoved
                      /\ (r0 # r \/ c0 # c) => board'[r][c].hasMoved]_vars

\* white has just castled on the king's side: king and rook are marked, the
\* other rook is not
C11_Witness ==
    /\ Len(history) = 7
    /\ IsPrefix(Plies(history), CastleKingside)
    /\ lastMove.isCastling
    /\ board[7][6].type = "king" /\ board[7][6].hasMoved
    /\ board[7][5].type = "rook" /\ board[7][5].hasMoved
    /\ board[7][0].type = "rook" /\ ~board[7][0].hasMoved

HomeRank(color) == IF color = "white" THEN 6 ELSE 1

BackRankOf(color) == IF color = "white" THEN 7 ELSE 0

\* C17: every piece with hasMoved false stands on the square, and is the
\* piece, that createInitialBoard put there; so a pawn has a raw move of two
\* rows only from its home rank, and a king has a raw move of two columns
\* only from column 4 of its own back rank towards a rook of its own colour.
C17_UnmovedAtHome ==
    /\ \A r \in Idx, c \in Idx :
          (board[r][c] # Null /\ ~board[r][c].hasMoved)
             => board[r][c] = createInitialBoard[r][c]
    /\ \A r \in Idx, c \in Idx :
          \A m \in getPieceMoves(board, Position(r, c), lastMove, FALSE) :
              /\ (board[r][c].type = "pawn" /\ Abs(m.row - r) = 2)
                    => r = HomeRank(board[r][c].color)
              /\ (board[r][c].type = "king" /\ Abs(m.col - c) = 2)
                    => /\ r = BackRankOf(board[r][c].color)
                       /\ c = 4
                       /\ board[r][IF m.col > c THEN 7 ELSE 0].type = "rook"
                       /\ board[r][IF m.col > c THEN 7 ELSE 0].color
                             = board[r][c].color

\* the rook that went to g1 is back on h1, marked as moved; the pawn on a2
\* has not moved, the pawn on e4 has
C17_Witness ==
    /\ Plies(history) = CastleRookMoved
    /\ board[7][7].type = "rook" /\ board[7][7].hasMoved
    /\ board[6][0].type = "pawn" /\ ~board[6][0].hasMoved
    /\ board[4][4].type = "pawn" /\ board[4][4].hasMoved

(***************************************************************************)
(* The session                                                             *)
(***************************************************************************)
\* C15 as claimed: every committed move relocates a piece of the side that
\* is to move when it is committed.
C15_MoverIsSideToMove ==
    [][(history' # history /\ history' # <<>>) =>
          board[lastMove'.from.row][lastMove'.from.col].color = currentPlayer]_vars

\* C16 as claimed: from checkmate or stalemate no step commits a move or
\* changes a timer, and status and winner stay as they are unless the step
\* starts a new game or returns to the menu; and whenever status is playing
\* there is no winner.
C16_TerminalAbsorbing ==
    [][/\ status \in {"CHECKMATE", "STALEMATE"} =>
             /\ timers' = timers
             /\ \/ status' = status /\ winner' = winner /\ history' = history
                \/ status' = "MENU" /\ history' = history
                \/ /\ status' = "PLAYING" /\ winner' = "null"
                   /\ history' = <<>> /\ board' = createInitialBoard
       /\ status' = "PLAYING" => winner' = "null"]_vars

(***************************************************************************)
(* Notation                                                                *)
(***************************************************************************)
FileLetter(c) == <<"a", "b", "c", "d", "e", "f", "g", "h">>[c + 1]

RankDigit(r) == <<"8", "7", "6", "5", "4", "3", "2", "1">>[r + 1]

ArchetypeLetter(type) ==
    CASE type = "pawn" -> ""
      [] type = "knight" -> "N"
      [] type = "bishop" -> "B"
      [] type = "rook" -> "R"
      [] type = "queen" -> "Q"
      [] type = "king" -> "K"

\* C12: for a king moving exactly two columns getAlgebraicNotation returns
\* "O-O" towards the higher column and "O-O-O" towards the lower one, with
\* no suffix whatever check and mate are; for every other input it returns
\* the archetype letter, then if captured the origin file of a pawn and "x",
\* then the destination file and rank, then "#" if mate, else "+" if check.
C12_Notation ==
    query.fn = "getAlgebraicNotation" =>
        LET from == query.args[1]
            to == query.args[2]
            piece == query.args[3]
            captured == query.args[4]
            check == query.args[5]
            mate == query.args[6]
        IN  IF piece.type = "king" /\ Abs(from.col - to.col) = 2
            THEN query.result = (IF to.col > from.col THEN "O-O" ELSE "O-O-O")
            ELSE query.result =
                    ArchetypeLetter(piece.type)
                    \o (IF captured /\ piece.type = "pawn"
                        THEN FileLetter(from.col) ELSE "")
                    \o (IF captured THEN "x" ELSE "")
                    \o FileLetter(to.col) \o RankDigit(to.row)
                    \o (IF mate THEN "#" ELSE IF check THEN "+" ELSE "")

\* castling on the queen's side that gives mate: no suffix
C12_Witness ==
    /\ query.fn = "getAlgebraicNotation"
    /\ query.args[3].type = "king"
    /\ query.args[1] = Position(7, 4)
    /\ query.args[2] = Position(7, 2)
    /\ query.args[5] /\ query.args[6]
    /\ query.result = "O-O-O"

(***************************************************************************)
(* Inputs that App would not pass                                          *)
(***************************************************************************)
\* the cases C13 lists: no moves from an empty square, the sentinel for a
\* missing king, no check without a king, and with a king the answer of
\* isSquareAttacked for the king's square
C13_ListedCases ==
    /\ (query.fn \in {"getPieceMoves", "getLegalMoves"}
           /\ query.args[1][query.args[2].row][query.args[2].col] = Null)
          => query.result = {}
    /\ (query.fn = "findKing" /\ KingSquares(query.args[1], query.args[2]) = {})
          => query.result = NoPos
    /\ query.fn = "isKingInCheck" =>
          LET kings == KingSquares(query.args[1], query.args[2]) IN
          IF kings = {} THEN query.result = FALSE
          ELSE \E k \in kings :
                  query.result = isSquareAttacked(query.args[1],
                                                  Position(k \div 8, k % 8),
                                                  Opponent(query.args[2]))

\* C13 as claimed: no call of the engine on in-range input fails, and the
\* listed cases return what the claim says.
C13_NeverFails ==
    /\ ~query.threw
    /\ C13_ListedCases

(***************************************************************************)
(* The countdown                                                           *)
(***************************************************************************)
\* C14: the timers change only in a step taken while status is PLAYING that
\* changes nothing else (so not in a move commit, pause, resume, flip,
\* selection, restart or exit, and never while status is MENU, PAUSED,
\* CHECKMATE or STALEMATE); such a step lowers the timer of the side to move
\* by exactly one and leaves the other timer alone; no timer goes below 0.
C14_Countdown ==
    [][/\ \A c \in Color : timers'[c] >= 0
       /\ timers' # timers =>
            /\ status = "PLAYING"
            /\ timers'[currentPlayer] = timers[currentPlayer] - 1
            /\ timers'[Opponent(currentPlayer)] = timers[Opponent(currentPlayer)]
            /\ UNCHANGED <<board, currentPlayer, history, status, winner,
                           selectedSquare, lastMove, capturedWhite,
                           capturedBlack, isFlipped, promotionPending>>]_vars

\* both clocks have run down to 0 in a game that was paused, flipped and is
\* running again, with black to move: the next tick finds black's timer at 0
C14_Witness ==
    /\ status = "PLAYING"
    /\ currentPlayer = "black"
    /\ Len(history) = 3
    /\ isFlipped
    /\ selectedSquare # NoPos
    /\ timers = [white |-> 0, black |-> 0]

(***************************************************************************)
(* The Move record                                                         *)
(***************************************************************************)
\* C10 as claimed: the piece field of every Move appended to history is the
\* moving piece as it stood on the source square before the commit, with the
\* same archetype and the same hasMoved.
C10_PieceBeforeMove ==
    [][(history' # history /\ history' # <<>>) =>
          LET mv == history'[Len(history')]
              old == board[mv.from.row][mv.from.col]
          IN  /\ mv.piece.type = old.type
              /\ mv.piece.hasMoved = old.hasMoved]_vars

====
